---- MODULE Spec2Model ----
(***************************************************************************)
(* Model of csrc/custom/custom.cpp: the pybind11 extension module that     *)
(* exposes LLMM1 to the host interpreter and forwards tensors to the       *)
(* external kernel entry points LLGemm1 / MMGPUKernel.                     *)
(*                                                                         *)
(* TLC evaluates integers in 32 bits, so an int64_t dimension size is held *)
(* as three limbs  hi * 2^32 + b31 * 2^31 + lo  (0 <= lo < 2^31); the C++  *)
(* conversion to int keeps the low 32 bits (b31, lo) as two's complement.  *)
(***************************************************************************)
EXTENDS Integers, Sequences, FiniteSets, TLC

VARIABLES loaded, registry, heap, current, queues, executed, last, ncalls

vars == <<loaded, registry, heap, current, queues, executed, last, ncalls>>

(* ------------------------------ bounds -------------------------------- *)
MaxRank == 2
MaxCalls == 2
NumStreams == 2

(* --------------------------- value domains ---------------------------- *)
INT_MAX == 2147483647

Size64(h, b, l) == [hi |-> h, b31 |-> b, lo |-> l]

\* sizes a dimension takes in the model: 2, 2^31 - 1, 2^31, 2^32 + 2
SizeVals == {Size64(0, 0, 2), Size64(0, 0, INT_MAX), Size64(0, 1, 0), Size64(1, 0, 2)}

FitsInt(s) == s.hi = 0 /\ s.b31 = 0

\* values an unchecked read past the end of a size array may produce
StaleVals == {Size64(0, 0, 0), Size64(0, 1, 7)}

Dtypes == {"float", "half"}
Devices == {"cuda", "cpu"}
TensorIds == {"x", "y"}
Streams == 1..NumStreams
Names == {"LLMM1", "MMCustomGPU", "LLGemm1", "MMGPUKernel"}

\* a buffer of the host framework can be allocated only if its element count
\* fits memory: at most one dimension is 2^31 - 1 or more
Allocatable(shape) ==
    Cardinality({i \in 1..Len(shape) : ~FitsInt(shape[i]) \/ shape[i].lo = INT_MAX}) <= 1

Shapes == {s \in UNION {[1..r -> SizeVals] : r \in 0..MaxRank} : Allocatable(s)}

BufferAddr(t) == IF t = "x" THEN 4096 ELSE 8192

\* at::Tensor handle: shape, element type, device and backing buffer
Tensor(t) == {[shape |-> s, dtype |-> d, device |-> v, ptr |-> BufferAddr(t), alloc |-> TRUE] :
                s \in Shapes, d \in Dtypes, v \in Devices}

\* operands both pass-through functions accept without throwing or narrowing
WellFormed(T) ==
    /\ Len(T.shape) = 2
    /\ \A i \in 1..2 : FitsInt(T.shape[i])
    /\ T.dtype = "float"
    /\ T.device = "cuda"

\* exploration depth: sequences of host operations for well-formed operands,
\* a single one for every other operand combination
CallBudget == IF \A t \in TensorIds : WellFormed(heap[t]) THEN MaxCalls ELSE 1

NoLaunch == [kernel |-> "none", a |-> 0, b |-> 0, c |-> 0, dims |-> <<>>, stream |-> 0]

NoCall == [via |-> "none", name |-> "none", fn |-> "none", a |-> "none", b |-> "none",
           c |-> "none", cur |-> 0, outcome |-> "none", ret |-> "none",
           launch |-> NoLaunch, id |-> 0]

(* ------------------------- the binding's code ------------------------- *)

\* element count of a shape, kept exact without 64-bit products: the one
\* dimension of 2^31 - 1 or more (if any) and the product of the others
IsBig(s) == ~FitsInt(s) \/ s.lo = INT_MAX
RECURSIVE SmallProd(_)
SmallProd(sh) ==
    IF sh = <<>> THEN 1
    ELSE (IF IsBig(Head(sh)) THEN 1 ELSE Head(sh).lo) * SmallProd(Tail(sh))
numel(T) == [big |-> {T.shape[i] : i \in {j \in 1..Len(T.shape) : IsBig(T.shape[j])}},
             small |-> SmallProd(T.shape)]

\* a conversion that clamps instead of truncating
NarrowSaturating(s) == IF FitsInt(s) THEN s.lo ELSE INT_MAX

\* int M = <int64_t>: the low 32 bits, read as two's complement
NarrowInt(s) == IF s.b31 = 1 THEN (s.lo - INT_MAX) - 1 ELSE s.lo

\* at::Tensor::size(dim) is range-checked: it throws when dim >= rank
size_throws(T, dim) == dim >= Len(T.shape)
size(T, dim) == T.shape[dim + 1]

\* at::Tensor::data_ptr() returns the buffer address for any element type;
\* data_ptr<float>() throws unless the element type is float
data_ptr(T) == T.ptr
data_ptr_float_throws(T) == T.dtype # "float"

\* IntArrayRef::operator[] is unchecked: past the end it reads stale memory
sizes_at(T, i, stale) == IF i < Len(T.shape) THEN T.shape[i + 1] ELSE stale

\* K read from the row count
LLMM1_K_rows(in_a) == NarrowInt(size(in_a, 0))

LLMM1_M(in_a) == NarrowInt(size(in_a, 0))
LLMM1_K(in_a) == NarrowInt(size(in_a, 1))

\* the size check of lines 16-18 switched on
LLMM1_throws_checked(in_a, in_b, out_c) ==
    size_throws(in_a, 0) \/ size_throws(in_a, 1) \/ numel(in_a) # numel(in_b)

\* lines 14-15 are the only statements of LLMM1 that can throw; the size
\* check of lines 16-18 is commented out
LLMM1_throws(in_a, in_b, out_c) == size_throws(in_a, 0) \/ size_throws(in_a, 1)

\* a stream taken from a pool by call number instead of the current one
LLMM1_stream_pooled(cur) == (ncalls % NumStreams) + 1

\* at::cuda::getCurrentCUDAStream()
LLMM1_stream(cur) == cur

\* in_b and out_c passed in the wrong order
LLMM1_launch_swapped(in_a, in_b, out_c, cur) ==
    [kernel |-> "LLGemm1", a |-> data_ptr(in_a), b |-> data_ptr(out_c), c |-> data_ptr(in_b),
     dims |-> <<LLMM1_M(in_a), LLMM1_K(in_a)>>, stream |-> LLMM1_stream(cur)]

LLMM1_launch(in_a, in_b, out_c, cur) ==
    [kernel |-> "LLGemm1", a |-> data_ptr(in_a), b |-> data_ptr(in_b), c |-> data_ptr(out_c),
     dims |-> <<LLMM1_M(in_a), LLMM1_K(in_a)>>, stream |-> LLMM1_stream(cur)]

\* out_c.resize_({N}) of line 20 switched on
LLMM1_tensors_resized(h, a, b, c) == [h EXCEPT ![c].shape = <<h[a].shape[1]>>]

\* the tensors after LLMM1's body: out_c.resize_ (line 20) is commented out
LLMM1_tensors(h, a, b, c) == h

\* a stream synchronisation after the launch: every kernel of stream s is
\* complete when LLMM1 returns
LLMM1_return_synced(qs, ex, s) == [queues |-> [qs EXCEPT ![s] = <<>>], executed |-> ex \o qs[s]]

\* host-visible device state when LLMM1 returns: nothing follows the launch
LLMM1_return(qs, ex, s) == [queues |-> qs, executed |-> ex]

\* only in_a read through the typed accessor
MMCustomGPU_throws_a_only(in_a, in_b, out_c) == data_ptr_float_throws(in_a)

MMCustomGPU_throws(in_a, in_b, out_c) ==
    data_ptr_float_throws(in_a) \/ data_ptr_float_throws(in_b) \/ data_ptr_float_throws(out_c)

MMCustomGPU_launch(in_a, in_b, out_c, cur, g) ==
    [kernel |-> "MMGPUKernel", a |-> data_ptr(in_a), b |-> data_ptr(in_b), c |-> data_ptr(out_c),
     dims |-> <<NarrowInt(sizes_at(in_a, 0, g[1])), NarrowInt(sizes_at(in_a, 1, g[2])),
                NarrowInt(sizes_at(in_b, 0, g[3])), NarrowInt(sizes_at(in_b, 1, g[4])),
                NarrowInt(sizes_at(out_c, 0, g[5])), NarrowInt(sizes_at(out_c, 1, g[6]))>>,
     stream |-> cur]

MMCustomGPU_tensors(h, a, b, c) == h

\* the stale values the six reads matA_sizes[0] .. matO_sizes[1] can see:
\* read 2k-1 / 2k is index 0 / 1 of the k-th tensor; a read inside the
\* array sees no stale value
StaleReads(Ts) ==
    {g \in [1..6 -> StaleVals \cup {Size64(0, 0, 0)}] :
        \A k \in 1..3, i \in 0..1 :
            IF i < Len(Ts[k].shape) THEN g[2 * k - 1 + i] = Size64(0, 0, 0)
                                    ELSE g[2 * k - 1 + i] \in StaleVals}

\* line 53 switched on
Registered_both == {[name |-> "LLMM1", fn |-> "LLMM1"],
                    [name |-> "MMCustomGPU", fn |-> "MMCustomGPU"]}

\* PYBIND11_MODULE: the names defined on the module and their functions
Registered == {[name |-> "LLMM1", fn |-> "LLMM1"]}

(* --------------------- the external collaborators --------------------- *)

\* LLGemm1 / MMGPUKernel enqueue one kernel on the stream they are given
Enqueue(qs, s, e) == [qs EXCEPT ![s] = Append(@, e)]

QueueEntry(id, L, cur) == [id |-> id, kernel |-> L.kernel, cur |-> cur]

(* ------------------------------ actions ------------------------------- *)

Init ==
    /\ loaded = FALSE
    /\ registry = {}
    /\ heap \in [TensorIds -> UNION {Tensor(t) : t \in TensorIds}]
    /\ \A t \in TensorIds : heap[t] \in Tensor(t)
    /\ current = 1
    /\ queues = [s \in Streams |-> <<>>]
    /\ executed = <<>>
    /\ last = NoCall
    /\ ncalls = 0

\* import of the extension module runs PYBIND11_MODULE
Load ==
    /\ ~loaded
    /\ loaded' = TRUE
    /\ registry' = Registered
    /\ UNCHANGED <<heap, current, queues, executed, last, ncalls>>

Threw(via, name, fn, a, b, c) ==
    /\ last' = [via |-> via, name |-> name, fn |-> fn, a |-> a, b |-> b, c |-> c,
                cur |-> current, outcome |-> "threw", ret |-> "exception",
                launch |-> NoLaunch, id |-> ncalls + 1]
    /\ UNCHANGED <<heap, queues, executed>>

Returned(via, name, fn, a, b, c, L, after, h) ==
    /\ last' = [via |-> via, name |-> name, fn |-> fn, a |-> a, b |-> b, c |-> c,
                cur |-> current, outcome |-> "returned", ret |-> "None",
                launch |-> L, id |-> ncalls + 1]
    /\ queues' = after.queues
    /\ executed' = after.executed
    /\ heap' = h

\* void LLMM1(at::Tensor in_a, at::Tensor in_b, at::Tensor out_c)
LLMM1(via, name, a, b, c) ==
    IF LLMM1_throws(heap[a], heap[b], heap[c])
    THEN Threw(via, name, "LLMM1", a, b, c)
    ELSE LET L == LLMM1_launch(heap[a], heap[b], heap[c], current)
             qs == Enqueue(queues, L.stream, QueueEntry(ncalls + 1, L, current))
         IN Returned(via, name, "LLMM1", a, b, c, L,
                     LLMM1_return(qs, executed, L.stream), LLMM1_tensors(heap, a, b, c))

\* void MMCustomGPU(at::Tensor in_a, at::Tensor in_b, at::Tensor out_c)
MMCustomGPU(via, name, a, b, c) ==
    IF MMCustomGPU_throws(heap[a], heap[b], heap[c])
    THEN Threw(via, name, "MMCustomGPU", a, b, c)
    ELSE \E g \in StaleReads(<<heap[a], heap[b], heap[c]>>) :
         LET L == MMCustomGPU_launch(heap[a], heap[b], heap[c], current, g)
             qs == Enqueue(queues, L.stream, QueueEntry(ncalls + 1, L, current))
         IN Returned(via, name, "MMCustomGPU", a, b, c, L,
                     [queues |-> qs, executed |-> executed], MMCustomGPU_tensors(heap, a, b, c))

Native(fn, via, name, a, b, c) ==
    IF fn = "LLMM1" THEN LLMM1(via, name, a, b, c) ELSE MMCustomGPU(via, name, a, b, c)

\* the host interpreter looks a name up on the module and calls it
HostCall ==
    /\ loaded
    /\ \E name \in Names :
        IF \E r \in registry : r.name = name
        THEN /\ ncalls < CallBudget
             /\ \E r \in registry, a \in TensorIds, b \in TensorIds, c \in TensorIds :
                  /\ r.name = name
                  /\ Native(r.fn, "host", name, a, b, c)
             /\ ncalls' = ncalls + 1
             /\ UNCHANGED <<loaded, registry, current>>
        ELSE /\ ncalls < CallBudget
             /\ last' = [NoCall EXCEPT !.via = "host", !.name = name, !.outcome = "notfound",
                                       !.ret = "AttributeError", !.cur = current,
                                       !.id = ncalls + 1]
             /\ ncalls' = ncalls + 1
             /\ UNCHANGED <<loaded, registry, heap, current, queues, executed>>

\* MMCustomGPU has external linkage: native code linked with the module can
\* call it although no host name leads to it
DirectCall ==
    /\ loaded
    /\ ncalls < CallBudget
    /\ \E a \in TensorIds, b \in TensorIds, c \in TensorIds :
         Native("MMCustomGPU", "native", "MMCustomGPU", a, b, c)
    /\ ncalls' = ncalls + 1
    /\ UNCHANGED <<loaded, registry, current>>

\* the host framework makes another stream the current one (explored while
\* a later host operation can still observe it)
SetStream ==
    /\ ncalls < CallBudget
    /\ \E s \in Streams : s # current /\ current' = s
    /\ UNCHANGED <<loaded, registry, heap, queues, executed, last, ncalls>>

\* the device runs the kernel at the head of a stream
Execute(s) ==
    /\ queues[s] # <<>>
    /\ executed' = Append(executed, Head(queues[s]))
    /\ queues' = [queues EXCEPT ![s] = Tail(@)]
    /\ UNCHANGED <<loaded, registry, heap, current, last, ncalls>>

DeviceStep == \E s \in Streams : Execute(s)

Next == Load \/ HostCall \/ DirectCall \/ SetStream \/ DeviceStep

Spec == Init /\ [][Next]_vars

(* ----------------------------- properties ----------------------------- *)

A == heap[last.a]
B == heap[last.b]
C == heap[last.c]

LLMM1Returned == last.fn = "LLMM1" /\ last.outcome = "returned"
M == last.launch.dims[1]
K == last.launch.dims[2]

\* the int m is exactly the 64-bit size s
Exact(m, s) == m >= 0 /\ s = Size64(0, 0, m)

\* the int m and the size s agree modulo 2^32 (same low 32 bits)
CongruentMod2_32(m, s) ==
    IF m >= 0 THEN s.b31 = 0 /\ s.lo = m
              ELSE s.b31 = 1 /\ s.lo = (m + INT_MAX) + 1

\* in_a is 2-dimensional and its column count is in_b's leading dimension
MatchingInner ==
    /\ Len(A.shape) = 2
    /\ Len(B.shape) >= 1
    /\ B.shape[1] = A.shape[2]

\* C1 as stated: for a 2-dimensional in_a with matching inner dimensions,
\* LLGemm1 receives M = in_a.size(0) and K = in_a.size(1) for every size.
C1_ForwardedUnmodified ==
    (LLMM1Returned /\ MatchingInner) => (Exact(M, A.shape[1]) /\ Exact(K, A.shape[2]))

\* C1 amended: for a 2-dimensional in_a with matching inner dimensions, each
\* of M and K equals the corresponding size of in_a whenever that size is at
\* most 2^31 - 1.
C1_ForwardedWhenFits ==
    (LLMM1Returned /\ MatchingInner) =>
        /\ FitsInt(A.shape[1]) => Exact(M, A.shape[1])
        /\ FitsInt(A.shape[2]) => Exact(K, A.shape[2])

C1_Witness ==
    /\ LLMM1Returned /\ MatchingInner
    /\ A.shape[1] = Size64(0, 0, INT_MAX)
    /\ M = INT_MAX /\ K = 2

\* C2: once the module is loaded the names callable from the host are
\* exactly {LLMM1}; a lookup of LLMM1 runs the native LLMM1, a lookup of any
\* other name fails as not found and reaches neither MMCustomGPU nor
\* MMGPUKernel.
C2_OnlyLLMM1Callable ==
    loaded =>
        /\ {r.name : r \in registry} = {"LLMM1"}
        /\ \A r \in registry : r.fn = r.name
        /\ last.via = "host" =>
            /\ last.fn # "MMCustomGPU"
            /\ last.launch.kernel # "MMGPUKernel"
            /\ IF last.name = "LLMM1"
               THEN last.fn = "LLMM1" /\ last.outcome \in {"returned", "threw"}
               ELSE last.fn = "none" /\ last.outcome = "notfound" /\ last.launch = NoLaunch

C2_Witness ==
    loaded /\ last.via = "host" /\ last.name = "MMCustomGPU" /\ last.outcome = "notfound"

\* the kernel launched by the last call is still queued on a stream
LastPending == \E s \in Streams : \E i \in 1..Len(queues[s]) : queues[s][i].id = last.id

\* C3: the step in which LLMM1 returns completes no kernel (it synchronises
\* with no stream) and leaves the kernel it launched pending.
C3_ReturnsWithoutWaiting ==
    [][(ncalls' = ncalls + 1 /\ last'.fn = "LLMM1" /\ last'.outcome = "returned") =>
          /\ executed' = executed
          /\ \E s \in Streams : /\ queues'[s] # <<>>
                                /\ queues'[s][Len(queues'[s])].id = last'.id
                                /\ Len(queues'[s]) = Len(queues[s]) + 1]_vars

C3_Witness == LLMM1Returned /\ LastPending /\ Len(queues[last.cur]) = 2

\* C4 as stated: no call of LLMM1 or MMCustomGPU ends in an exception.
C4_NeverThrows == last.outcome # "threw"

\* C4 amended: LLMM1 throws exactly when in_a has fewer than two dimensions,
\* MMCustomGPU exactly when some tensor's element type is not float; a call
\* that throws launches no kernel, every other call (any shapes, any device)
\* returns.
C4_ThrowsOnlyFromAccessors ==
    last.fn # "none" =>
        /\ last.outcome \in {"returned", "threw"}
        /\ last.outcome = "threw" <=>
              \/ last.fn = "LLMM1" /\ Len(A.shape) < 2
              \/ last.fn = "MMCustomGPU" /\ \E T \in {A, B, C} : T.dtype # "float"
        /\ last.outcome = "threw" => (last.launch = NoLaunch /\ ~LastPending
                                       /\ \A q \in 1..Len(executed) : executed[q].id # last.id)

C4_Witness ==
    /\ last.fn = "MMCustomGPU" /\ last.outcome = "returned"
    /\ A.dtype = "float" /\ A.device = "cpu" /\ Len(B.shape) = 0

\* C5: a host call of LLMM1 with any tensor in host memory is rejected and
\* LLGemm1 is not invoked.
C5_HostTensorsRejected ==
    (last.via = "host" /\ last.fn = "LLMM1" /\ \E T \in {A, B, C} : T.device = "cpu") =>
        (last.outcome # "returned" /\ last.launch = NoLaunch)

\* C6: for a 2-dimensional in_a, LLMM1 returns without error and launches
\* LLGemm1 with M and K taken from in_a, whatever in_b and out_c are.
C6_NoValidation ==
    (last.fn = "LLMM1" /\ Len(A.shape) = 2) =>
        /\ last.outcome = "returned"
        /\ last.launch.kernel = "LLGemm1"
        /\ CongruentMod2_32(M, A.shape[1])
        /\ CongruentMod2_32(K, A.shape[2])

C6_Witness ==
    /\ LLMM1Returned /\ Len(A.shape) = 2
    /\ numel(A) # numel(B)
    /\ Len(B.shape) = 0
    /\ Len(C.shape) = 0

Pending == UNION {{queues[s][i] : i \in 1..Len(queues[s])} : s \in Streams}

\* C7: kernels of calls made while the same stream was current run in call
\* order; between kernels of different streams nothing is ordered: the head of
\* every non-empty stream can run next.
C7_InOrderPerStream ==
    /\ \A p \in 1..Len(executed), q \in 1..Len(executed) :
          (p < q /\ executed[p].cur = executed[q].cur) => executed[p].id < executed[q].id
    /\ \A e \in Pending : \A q \in 1..Len(executed) :
          e.cur = executed[q].cur => executed[q].id < e.id
    /\ \A s \in Streams : queues[s] # <<>> => ENABLED Execute(s)

C7_Witness ==
    \E p \in 1..Len(executed), q \in 1..Len(executed) :
        /\ p < q
        /\ executed[p].id > executed[q].id
        /\ executed[p].kernel = "LLGemm1" /\ executed[q].kernel = "LLGemm1"

\* C8: a call of LLMM1 that returns appends exactly one LLGemm1 launch, to the
\* queue of the stream current at the call, with the buffer addresses of
\* in_a, in_b, out_c as a, b, c, and returns None.
C8_OneLaunchOnCurrentStream ==
    [][(ncalls' = ncalls + 1 /\ last'.fn = "LLMM1" /\ last'.outcome = "returned") =>
          /\ queues' = [queues EXCEPT ![current] =
                           Append(@, [id |-> last'.id, kernel |-> "LLGemm1", cur |-> current])]
          /\ last'.launch.kernel = "LLGemm1"
          /\ last'.launch.stream = current
          /\ last'.launch.a = heap[last'.a].ptr
          /\ last'.launch.b = heap[last'.b].ptr
          /\ last'.launch.c = heap[last'.c].ptr
          /\ last'.ret = "None"]_vars

C8_Witness ==
    /\ LLMM1Returned
    /\ last.cur = 2 /\ last.launch.stream = 2
    /\ last.a # last.b /\ last.b # last.c
    /\ last.launch.b # last.launch.c

\* what a call's kernel arguments must be, from that call's tensors and the
\* stream current at the call alone
FromThisCallOnly ==
    /\ last.launch.a = A.ptr /\ last.launch.b = B.ptr /\ last.launch.c = C.ptr
    /\ last.launch.stream = last.cur
    /\ last.fn = "LLMM1" => last.launch.dims = <<NarrowInt(A.shape[1]), NarrowInt(A.shape[2])>>
    /\ last.fn = "MMCustomGPU" =>
          \A k \in 1..3, i \in 1..2 :
              LET T == <<A, B, C>>[k]
              IN i <= Len(T.shape) => last.launch.dims[2 * (k - 1) + i] = NarrowInt(T.shape[i])

C10_NarrowedTo32Bits ==
    (last.fn = "LLMM1" /\ Len(A.shape) >= 2) =>
        /\ last.outcome = "returned"
        /\ \A i \in 1..2 :
              /\ Exact(last.launch.dims[i], A.shape[i]) <=> FitsInt(A.shape[i])
              /\ CongruentMod2_32(last.launch.dims[i], A.shape[i])

C10_Witness ==
    /\ LLMM1Returned
    /\ A.shape[1] = Size64(1, 0, 2) /\ M = 2
    /\ A.shape[2] = Size64(0, 0, 2)
====
